---- MODULE Spec2Model ----
(***************************************************************************)
(* Model of mlservicewrapper/core/server.py: the lifecycle wrapper         *)
(* SafeServiceWrapper and the orchestrator ServerInstance, driven by a     *)
(* host that serialises its calls.                                         *)
(*                                                                         *)
(* Python semantics the model depends on: calling an `async def` function  *)
(* only builds a coroutine object; the body of the function runs when the  *)
(* coroutine is awaited.  A coroutine object that is dropped without being *)
(* awaited never runs its body.                                            *)
(***************************************************************************)
EXTENDS Integers, Sequences, FiniteSets, TLC

\* ---------------------------------------------------------------- bounds
MaxInstances == 2      \* service objects / wrappers created in one run
MaxCalls == 2          \* invocations of one service method on one object

\* ---------------------------------------------------------------- values
None == "None"
Contexts == {"ctx1", "ctx2"}
DefaultContext == "default"
Funcs == {"load", "process", "dispose"}

\* Parameter names a host may hand in; the second one is not an identifier.
Names == {"foo", "not a name!"}

\* Python values a parameter can have: null, the empty string, zero, false,
\* and a non-empty string.
Zero == "int:0"
False == "bool:False"
ParamValues == {None, "", Zero, False, "bar"}
EnvValues == {None, "qux"}
OverrideValues == {None, "baz"}
Defaults == {None, "", "fallback"}

\* Python truth value and the `or` operator.
PyTruthy(v) == v \notin {None, "", Zero, False}
PyOr(a, b) == IF PyTruthy(a) THEN a ELSE b

\* The class of the service object the loader instantiates: which of the
\* optional operations it defines, whether they are `async def`, and whether
\* its load / dispose body raises.
ServiceKinds ==
    { k \in [hasLoad : BOOLEAN, hasProcess : BOOLEAN, hasDispose : BOOLEAN,
             isAsync : BOOLEAN, loadRaises : BOOLEAN, disposeRaises : BOOLEAN] :
        /\ k.loadRaises => k.hasLoad
        /\ k.disposeRaises => k.hasDispose }

VARIABLES
    kind,      \* the service class configured for this run
    heap,      \* the SafeServiceWrapper objects created so far, each with its service
    srv,       \* ServerInstance.__service: 0 is None, else an index into heap
    last,      \* the host's most recent call: operation, arguments, outcome
    params,    \* the parameters section of the configuration: name -> value
    environ,   \* the process environment: name -> value of SERVICE_<name>
    look,      \* the most recent parameter lookup: arguments and outcome
    err        \* the most recently constructed error of errors.py

vars == <<kind, heap, srv, last, params, environ, look, err>>
core == <<kind, heap, srv, last>>
aux == <<params, environ, look, err>>

\* ------------------------------------------------- the wrapped service
\* State of a fresh service object: how often each operation was entered,
\* how often it ran to completion, and the argument of its latest call.
NewService ==
    [calls |-> [f \in Funcs |-> 0],
     done  |-> [f \in Funcs |-> 0],
     args  |-> [f \in Funcs |-> None]]

HasAttr(k, func_name) ==
    CASE func_name = "load"    -> k.hasLoad
      [] func_name = "process" -> k.hasProcess
      [] func_name = "dispose" -> k.hasDispose

Raises(k, func_name) ==
    CASE func_name = "load"    -> k.loadRaises
      [] func_name = "process" -> FALSE
      [] func_name = "dispose" -> k.disposeRaises

RaisedError(func_name) ==
    IF func_name = "load" THEN "MissingParameterError" ELSE "RuntimeError"

ServiceResult(func_name) == IF func_name = "process" THEN "result" ELSE None

\* Running the body of one service operation on service state s.
ServiceBody(s, k, func_name, arg) ==
    LET entered == [s EXCEPT !.calls[func_name] = @ + 1, !.args[func_name] = arg]
    IN  IF Raises(k, func_name)
        THEN [svc |-> entered, outcome |-> RaisedError(func_name), ret |-> None]
        ELSE [svc |-> [entered EXCEPT !.done[func_name] = @ + 1],
              outcome |-> "ok", ret |-> ServiceResult(func_name)]

\* ------------------------------------------------------- coroutines
\* Calling an async function: nothing runs; the coroutine object carries what
\* its body would do once driven.
Coroutine(body) == [run |-> body]
iscoroutine(res) == "run" \in DOMAIN res
Await(coro) == coro.run

\* func(*args) for a service method: a plain method runs now, an `async def`
\* method returns a coroutine.
CallService(s, k, func_name, arg) ==
    IF k.isAsync THEN Coroutine(ServiceBody(s, k, func_name, arg))
                 ELSE ServiceBody(s, k, func_name, arg)

\* ------------------------------------------------- SafeServiceWrapper
\* A wrapper object.  is_loaded is the field _is_loaded; svc is the state of
\* the wrapped service; loadReturned is a history field that records that the
\* wrapper's load has returned; owner tells who constructed the wrapper.
SafeServiceWrapper_init(owner) ==
    [is_loaded |-> FALSE, svc |-> NewService, loadReturned |-> FALSE, owner |-> owner]

\* async def _call_maybe_coroutine: the coroutine it returns.
call_maybe_coroutine(s, k, func_name, arg) ==
    Coroutine(LET res == CallService(s, k, func_name, arg)
              IN  IF iscoroutine(res) THEN Await(res) ELSE res)

\* async def _try_call_maybe_coroutine: the coroutine it returns.
try_call_maybe_coroutine(s, k, func_name, arg) ==
    Coroutine(IF ~HasAttr(k, func_name)
              THEN [svc |-> s, outcome |-> "ok", ret |-> FALSE]
              ELSE LET r == Await(call_maybe_coroutine(s, k, func_name, arg))
                   IN  [svc |-> r.svc, outcome |-> r.outcome, ret |-> None])

\* Variant: the probe answers true for every service.
has_load_always(w, k) == TRUE

has_load(w, k) == HasAttr(k, "load")

\* async def load(self, ctx), awaited by its caller.  The coroutine built on
\* line 64 is dropped, line 66 sets the flag.
SafeServiceWrapper_load(w, k, ctx) ==
    LET dropped == try_call_maybe_coroutine(w.svc, k, "load", ctx)
    IN  [self |-> [w EXCEPT !.is_loaded = TRUE, !.loadReturned = TRUE],
         outcome |-> "ok", ret |-> None]

\* Variant: the load guard is missing.
SafeServiceWrapper_process_noguard(w, k, ctx) ==
    IF ~HasAttr(k, "process")
    THEN [self |-> w, outcome |-> "AttributeError", ret |-> None]
    ELSE [self |-> w, outcome |-> "ok", ret |-> None]

\* Variant: a process that gets past the guard marks the wrapper loaded.
SafeServiceWrapper_process_marks_loaded(w, k, ctx) ==
    IF ~w.is_loaded /\ HasAttr(k, "load")
    THEN [self |-> w, outcome |-> "ValueError", ret |-> None]
    ELSE IF ~HasAttr(k, "process")
    THEN [self |-> w, outcome |-> "AttributeError", ret |-> None]
    ELSE [self |-> [w EXCEPT !.is_loaded = TRUE], outcome |-> "ok", ret |-> None]

\* async def process(self, ctx), awaited by its caller.  Line 72 evaluates
\* self._service.process (AttributeError when absent) and drops the coroutine.
SafeServiceWrapper_process(w, k, ctx) ==
    IF ~w.is_loaded /\ has_load(w, k)
    THEN [self |-> w, outcome |-> "ValueError", ret |-> None]
    ELSE IF ~HasAttr(k, "process")
    THEN [self |-> w, outcome |-> "AttributeError", ret |-> None]
    ELSE LET dropped == call_maybe_coroutine(w.svc, k, "process", ctx)
         IN  [self |-> w, outcome |-> "ok", ret |-> None]

\* Variant: dispose drives the coroutine and lets its error escape.
SafeServiceWrapper_dispose_driven(w, k) ==
    LET r == Await(try_call_maybe_coroutine(w.svc, k, "dispose", None))
    IN  [self |-> [w EXCEPT !.svc = r.svc], outcome |-> r.outcome, ret |-> None]

\* Variant: dispose clears the loaded flag.
SafeServiceWrapper_dispose_unloads(w, k) ==
    [self |-> [w EXCEPT !.is_loaded = FALSE], outcome |-> "ok", ret |-> None]

\* def dispose(self): the coroutine built on line 75 is dropped.
SafeServiceWrapper_dispose(w, k) ==
    LET dropped == try_call_maybe_coroutine(w.svc, k, "dispose", None)
    IN  [self |-> w, outcome |-> "ok", ret |-> None]

\* ----------------------------------------------------- ServerInstance
\* __get_service_instance: a fresh service object from the loader, wrapped.
ServerInstance_get_service_instance == SafeServiceWrapper_init("server")

is_loaded(s) == s # 0

\* Variant: the wrapper is stored without being loaded.
ServerInstance_load_skips_wrapper_load(s, h, k, ctx_source) ==
    [srv |-> Len(h) + 1, heap |-> Append(h, ServerInstance_get_service_instance),
     outcome |-> "ok", ret |-> None]

\* Variant: a wrapper that is already held is kept; no new instance replaces it.
ServerInstance_load_keeps_first(s, h, k, ctx_source) ==
    LET service == ServerInstance_get_service_instance
        r == IF HasAttr(k, "load")
             THEN SafeServiceWrapper_load(service, k, ctx_source)
             ELSE [self |-> service, outcome |-> "ok", ret |-> None]
    IN  [srv |-> IF s = 0 THEN Len(h) + 1 ELSE s, heap |-> Append(h, r.self),
         outcome |-> "ok", ret |-> None]

\* async def load(self, ctx_source).  The awaited wrapper load never suspends,
\* so the whole call is one step.
ServerInstance_load(s, h, k, ctx_source) ==
    LET service == ServerInstance_get_service_instance
        ctx == IF ctx_source = None THEN DefaultContext ELSE ctx_source
        r == IF has_load(service, k)
             THEN SafeServiceWrapper_load(service, k, ctx)
             ELSE [self |-> service, outcome |-> "ok", ret |-> None]
    IN  IF r.outcome = "ok"
        THEN [srv |-> Len(h) + 1, heap |-> Append(h, r.self),
              outcome |-> "ok", ret |-> None]
        ELSE [srv |-> s, heap |-> Append(h, r.self),
              outcome |-> r.outcome, ret |-> None]

\* Variant: a process on an orchestrator without a service returns quietly.
ServerInstance_process_ignores_none(s, h, k, ctx) ==
    IF s = 0
    THEN [srv |-> s, heap |-> h, outcome |-> "ok", ret |-> None]
    ELSE LET r == SafeServiceWrapper_process(h[s], k, ctx)
         IN  [srv |-> s, heap |-> [h EXCEPT ![s] = r.self],
              outcome |-> r.outcome, ret |-> None]

\* async def process(self, ctx_source)
ServerInstance_process(s, h, k, ctx) ==
    IF s = 0
    THEN [srv |-> s, heap |-> h, outcome |-> "AttributeError", ret |-> None]
    ELSE LET r == SafeServiceWrapper_process(h[s], k, ctx)
         IN  [srv |-> s, heap |-> [h EXCEPT ![s] = r.self],
              outcome |-> r.outcome, ret |-> None]

\* Variant: the None check is missing.
ServerInstance_dispose_unguarded(s, h, k) ==
    IF s = 0
    THEN [srv |-> s, heap |-> h, outcome |-> "AttributeError", ret |-> None]
    ELSE LET r == SafeServiceWrapper_dispose(h[s], k)
         IN  [srv |-> s, heap |-> [h EXCEPT ![s] = r.self],
              outcome |-> r.outcome, ret |-> None]

\* def dispose(self)
ServerInstance_dispose(s, h, k) ==
    IF s = 0
    THEN [srv |-> s, heap |-> h, outcome |-> "ok", ret |-> None]
    ELSE LET r == SafeServiceWrapper_dispose(h[s], k)
         IN  [srv |-> s, heap |-> [h EXCEPT ![s] = r.self],
              outcome |-> r.outcome, ret |-> None]

\* ------------------------------------------------------------ the host
Call(op, inst, arg, outcome, ret) ==
    [op |-> op, inst |-> inst, arg |-> arg, outcome |-> outcome, ret |-> ret,
     pre |-> [srv |-> srv, heap |-> heap],
     prev |-> [op |-> last.op, inst |-> last.inst]]

NoCall ==
    [op |-> "none", inst |-> 0, arg |-> None, outcome |-> "ok",
     ret |-> None, pre |-> [srv |-> 0, heap |-> << >>],
     prev |-> [op |-> "none", inst |-> 0]]

NoLookup == [op |-> "none"]
NoError == [type |-> "none"]
NoParameters == [n \in Names |-> None]

Init ==
    /\ kind \in ServiceKinds
    /\ heap = << >>
    /\ srv = 0
    /\ last = NoCall
    /\ params = NoParameters
    /\ environ = NoParameters
    /\ look = NoLookup
    /\ err = NoError

\* Wrappers the host constructed itself; ServerInstance.__service is private.
HostWrappers == { i \in DOMAIN heap : heap[i].owner = "host" }

CanCall(i, func_name) == heap[i].svc.calls[func_name] < MaxCalls

\* SafeServiceWrapper(service)
HostNewWrapper ==
    /\ Len(heap) < MaxInstances
    /\ heap' = Append(heap, SafeServiceWrapper_init("host"))
    /\ last' = Call("wrapper.new", Len(heap) + 1, None, "ok", None)
    /\ UNCHANGED <<kind, srv, aux>>

\* await wrapper.load(ctx)
HostWrapperLoad ==
    \E i \in HostWrappers, ctx \in Contexts :
        /\ CanCall(i, "load")
        /\ LET r == SafeServiceWrapper_load(heap[i], kind, ctx)
           IN  /\ heap' = [heap EXCEPT ![i] = r.self]
               /\ last' = Call("wrapper.load", i, ctx, r.outcome, r.ret)
        /\ UNCHANGED <<kind, srv, aux>>

\* await wrapper.process(ctx)
HostWrapperProcess ==
    \E i \in HostWrappers, ctx \in Contexts :
        /\ CanCall(i, "process")
        /\ LET r == SafeServiceWrapper_process(heap[i], kind, ctx)
           IN  /\ heap' = [heap EXCEPT ![i] = r.self]
               /\ last' = Call("wrapper.process", i, ctx, r.outcome, r.ret)
        /\ UNCHANGED <<kind, srv, aux>>

\* wrapper.dispose()
HostWrapperDispose ==
    \E i \in HostWrappers :
        /\ CanCall(i, "dispose")
        /\ LET r == SafeServiceWrapper_dispose(heap[i], kind)
           IN  /\ heap' = [heap EXCEPT ![i] = r.self]
               /\ last' = Call("wrapper.dispose", i, None, r.outcome, r.ret)
        /\ UNCHANGED <<kind, srv, aux>>

\* await server.load(ctx_source)
HostServerLoad ==
    \E ctx_source \in Contexts \cup {None} :
        /\ Len(heap) < MaxInstances
        /\ LET r == ServerInstance_load(srv, heap, kind, ctx_source)
           IN  /\ srv' = r.srv
               /\ heap' = r.heap
               /\ last' = Call("server.load", Len(heap) + 1, ctx_source, r.outcome, r.ret)
        /\ UNCHANGED <<kind, aux>>

\* await server.process(ctx_source)
HostServerProcess ==
    \E ctx \in Contexts :
        /\ srv # 0 => CanCall(srv, "process")
        /\ LET r == ServerInstance_process(srv, heap, kind, ctx)
           IN  /\ srv' = r.srv
               /\ heap' = r.heap
               /\ last' = Call("server.process", srv, ctx, r.outcome, r.ret)
        /\ UNCHANGED <<kind, aux>>

\* server.dispose()
HostServerDispose ==
    /\ srv # 0 => CanCall(srv, "dispose")
    /\ LET r == ServerInstance_dispose(srv, heap, kind)
       IN  /\ srv' = r.srv
           /\ heap' = r.heap
           /\ last' = Call("server.dispose", srv, None, r.outcome, r.ret)
    /\ UNCHANGED <<kind, aux>>

Next ==
    \/ HostNewWrapper
    \/ HostWrapperLoad
    \/ HostWrapperProcess
    \/ HostWrapperDispose
    \/ HostServerLoad
    \/ HostServerProcess
    \/ HostServerDispose

Spec == Init /\ [][Next]_vars

TypeOK ==
    /\ kind \in ServiceKinds
    /\ srv \in 0 .. Len(heap)
    /\ Len(heap) <= MaxInstances

\* ------------------------------------------- parameter lookups
\* NameValidator.raise_if_invalid accepts identifiers only.
IsValidName(name) == name = "foo"

\* ServiceConfiguration.parameters(): reads of the parameters section.  A
\* name the section does not hold reads as null.
get_value(p, name) == p[name]

\* A value of the parameters section resolved against the directory of the
\* configuration file.
RealPath(v) == <<"<config dir>", v>>
get_real_path_value(p, name) ==
    IF p[name] = None THEN <<None>> ELSE RealPath(p[name])

has_parameters(p) == \E n \in Names : p[n] # None

Raise(error, name) ==
    [outcome |-> error, name |-> name, ret |-> <<None>>, read |-> error # "NameError"]
Return(val) == [outcome |-> "ok", name |-> None, ret |-> val, read |-> TRUE]

\* _ServiceConfigurationServiceContextSource.get_parameter_value
Config_get_parameter_value(p, name, required, default) ==
    IF ~IsValidName(name) THEN Raise("NameError", name)
    ELSE LET val == PyOr(get_value(p, name), default)
         IN  IF required /\ val = None
             THEN Raise("MissingParameterError", name)
             ELSE Return(<<val>>)

\* Variant: a missing real path is returned as null even when required.
Config_get_parameter_real_path_value_lenient(p, name, required) ==
    IF ~IsValidName(name) THEN Raise("NameError", name)
    ELSE Return(get_real_path_value(p, name))

\* _ServiceConfigurationServiceContextSource.get_parameter_real_path_value
Config_get_parameter_real_path_value(p, name, required) ==
    IF ~IsValidName(name) THEN Raise("NameError", name)
    ELSE LET val == get_real_path_value(p, name)
         IN  IF required /\ val = <<None>>
             THEN Raise("MissingParameterError", name)
             ELSE Return(val)

\* ServerInstance.get_parameter_real_path_value
ServerInstance_get_parameter_real_path_value(p, name) ==
    Return(get_real_path_value(p, name))

\* The override argument of build_load_context_source: None, or a dict.
Overrides ==
    {[given |-> FALSE, data |-> NoParameters]} \cup
    {[given |-> TRUE, data |-> d] : d \in [Names -> OverrideValues]}

DictSource == [type |-> "dict", prefix |-> ""]
EnvSource(prefix) == [type |-> "env", prefix |-> prefix]
ConfigSource == [type |-> "config", prefix |-> ""]

\* Variant: the environment is consulted before the override.
build_load_context_source_env_first(p, include_environment_variables, override) ==
    (IF include_environment_variables THEN <<EnvSource("SERVICE_")>> ELSE << >>)
    \o (IF override.given THEN <<DictSource>> ELSE << >>)
    \o (IF has_parameters(p) THEN <<ConfigSource>> ELSE << >>)

\* ServerInstance.build_load_context_source: the members of the chain.
build_load_context_source(p, include_environment_variables, override) ==
    (IF override.given THEN <<DictSource>> ELSE << >>)
    \o (IF include_environment_variables THEN <<EnvSource("SERVICE_")>> ELSE << >>)
    \o (IF has_parameters(p) THEN <<ConfigSource>> ELSE << >>)

\* What one member of a chain answers for a name, null when it has nothing.
MemberValue(member, p, env, override, name) ==
    CASE member.type = "dict"   -> override.data[name]
      [] member.type = "env"    -> IF member.prefix = "SERVICE_" THEN env[name] ELSE None
      [] member.type = "config" -> Config_get_parameter_value(p, name, FALSE, None).ret[1]

RECURSIVE FirstNonNull(_, _, _, _, _)
FirstNonNull(chain, p, env, override, name) ==
    IF chain = << >> THEN None
    ELSE LET v == MemberValue(Head(chain), p, env, override, name)
         IN  IF v # None THEN v ELSE FirstNonNull(Tail(chain), p, env, override, name)

\* CoalescingServiceContextSource.get_parameter_value
Coalescing_get_parameter_value(chain, p, env, override, name, required, default) ==
    IF ~IsValidName(name) THEN Raise("NameError", name)
    ELSE LET found == FirstNonNull(chain, p, env, override, name)
             val == IF found # None THEN found ELSE default
         IN  IF required /\ val = None
             THEN Raise("MissingParameterError", name)
             ELSE Return(<<val>>)

Lookup(op, name, required, default, r) ==
    [op |-> op, name |-> name, required |-> required, default |-> default,
     outcome |-> r.outcome, error_name |-> r.name, ret |-> r.ret, read |-> r.read]

InitLookup ==
    /\ kind = CHOOSE k \in ServiceKinds : k.hasLoad /\ k.hasProcess /\ k.hasDispose
                                          /\ ~k.isAsync /\ ~k.loadRaises /\ ~k.disposeRaises
    /\ heap = << >>
    /\ srv = 0
    /\ last = NoCall
    /\ params \in [Names -> ParamValues]
    /\ environ \in [Names -> EnvValues]
    /\ look = NoLookup
    /\ err = NoError

\* source.get_parameter_value(name, required, default) on the configuration source
HostConfigGetParameterValue ==
    \E name \in Names, required \in BOOLEAN, default \in Defaults :
        /\ look' = Lookup("config.get_parameter_value", name, required, default,
                          Config_get_parameter_value(params, name, required, default))
        /\ UNCHANGED <<core, params, environ, err>>

\* source.get_parameter_real_path_value(name, required) on the configuration source
HostConfigGetParameterRealPathValue ==
    \E name \in Names, required \in BOOLEAN :
        /\ look' = Lookup("config.get_parameter_real_path_value", name, required, None,
                          Config_get_parameter_real_path_value(params, name, required))
        /\ UNCHANGED <<core, params, environ, err>>

\* server.get_parameter_real_path_value(name)
HostServerGetParameterRealPathValue ==
    \E name \in Names :
        /\ look' = Lookup("server.get_parameter_real_path_value", name, FALSE, None,
                          ServerInstance_get_parameter_real_path_value(params, name))
        /\ UNCHANGED <<core, params, environ, err>>

\* server.build_load_context_source(include, override).get_parameter_value(...)
HostResolve ==
    \E include \in BOOLEAN, override \in Overrides,
       name \in Names, required \in BOOLEAN, default \in {None, "fallback"} :
        LET chain == build_load_context_source(params, include, override)
            r == Coalescing_get_parameter_value(chain, params, environ, override,
                                                name, required, default)
        IN  /\ look' = [Lookup("chain.get_parameter_value", name, required, default, r)
                           EXCEPT !.op = "chain.get_parameter_value"]
                       @@ [chain |-> chain, include |-> include, override |-> override]
            /\ UNCHANGED <<core, params, environ, err>>

NextLookup ==
    \/ HostConfigGetParameterValue
    \/ HostConfigGetParameterRealPathValue
    \/ HostServerGetParameterRealPathValue
    \/ HostResolve

SpecLookup == InitLookup /\ [][NextLookup]_vars

\* ------------------------------------------------------- errors.py
\* Strings are sequences of pieces, so that formatting is concatenation and
\* the empty string is the empty sequence.  An optional message is either
\* absent (None) or a string.
Text(piece) == <<piece>>
EmptyText == << >>
NoMessage == [given |-> FALSE, text |-> EmptyText]
Message(text) == [given |-> TRUE, text |-> text]

ErrorNames == {EmptyText, Text("orders"), Text("customers")}
FieldNames == {EmptyText, Text("id"), Text("total")}
Messages == {NoMessage, Message(EmptyText), Message(Text("custom")), Message(Text("other"))}

\* `message or default`: None and the empty string are both falsy.
MessageOr(message, default) ==
    IF message.given /\ message.text # EmptyText THEN message.text ELSE default

BadRequestError(name, message) ==
    [type |-> "BadRequestError", name |-> name,
     message |-> MessageOr(message, Text("The request was not valid"))]

BadParameterError(name, message) ==
    [BadRequestError(name,
        Message(MessageOr(message,
            Text("The request parameter ") \o name \o Text(" was not valid"))))
     EXCEPT !.type = "BadParameterError"]

BadDatasetError(dataset_name, message) ==
    [BadRequestError(dataset_name,
        Message(MessageOr(message,
            Text("The input dataset ") \o dataset_name \o Text(" was not valid"))))
     EXCEPT !.type = "BadDatasetError"]

\* Variant: the message handed in by a subclass is not passed on.
DatasetFieldError_own_default(dataset_name, field_name, message) ==
    [BadDatasetError(dataset_name,
        Message(Text("The field ") \o field_name
                \o Text(" was not valid for input dataset ") \o dataset_name))
     EXCEPT !.type = "DatasetFieldError"]
    @@ [field_name |-> field_name]

DatasetFieldError(dataset_name, field_name, message) ==
    [BadDatasetError(dataset_name,
        Message(MessageOr(message,
            Text("The field ") \o field_name
            \o Text(" was not valid for input dataset ") \o dataset_name)))
     EXCEPT !.type = "DatasetFieldError"]
    @@ [field_name |-> field_name]

MissingDatasetFieldError(dataset_name, field_name, message) ==
    [DatasetFieldError(dataset_name, field_name,
        Message(MessageOr(message,
            Text("The field ") \o field_name \o Text(" on input dataset ")
            \o dataset_name \o Text(" is required but could not be found!"))))
     EXCEPT !.type = "MissingDatasetFieldError"]

Constructed(e, name, field_name, message) ==
    [error |-> e, type |-> e.type,
     args |-> [name |-> name, field_name |-> field_name, message |-> message]]

InitErrors ==
    /\ kind = CHOOSE k \in ServiceKinds : k.hasLoad /\ k.hasProcess /\ k.hasDispose
                                          /\ ~k.isAsync /\ ~k.loadRaises /\ ~k.disposeRaises
    /\ heap = << >>
    /\ srv = 0
    /\ last = NoCall
    /\ params = NoParameters
    /\ environ = NoParameters
    /\ look = NoLookup
    /\ err = NoError

NewBadRequestError ==
    \E name \in ErrorNames, message \in Messages :
        /\ err' = Constructed(BadRequestError(name, message), name, EmptyText, message)
        /\ UNCHANGED <<core, params, environ, look>>

NewBadParameterError ==
    \E name \in ErrorNames, message \in Messages :
        /\ err' = Constructed(BadParameterError(name, message), name, EmptyText, message)
        /\ UNCHANGED <<core, params, environ, look>>

NewBadDatasetError ==
    \E name \in ErrorNames, message \in Messages :
        /\ err' = Constructed(BadDatasetError(name, message), name, EmptyText, message)
        /\ UNCHANGED <<core, params, environ, look>>

NewDatasetFieldError ==
    \E name \in ErrorNames, field \in FieldNames, message \in Messages :
        /\ err' = Constructed(DatasetFieldError(name, field, message), name, field, message)
        /\ UNCHANGED <<core, params, environ, look>>

NewMissingDatasetFieldError ==
    \E name \in ErrorNames, field \in FieldNames, message \in Messages :
        /\ err' = Constructed(MissingDatasetFieldError(name, field, message),
                              name, field, message)
        /\ UNCHANGED <<core, params, environ, look>>

NextErrors ==
    \/ NewBadRequestError
    \/ NewBadParameterError
    \/ NewBadDatasetError
    \/ NewDatasetFieldError
    \/ NewMissingDatasetFieldError

SpecErrors == InitErrors /\ [][NextErrors]_vars

\* ============================================================ properties
Now == heap[last.inst]
Before == last.pre.heap[last.inst]
OnWrapper(op) == last.op = op /\ last.inst \in DOMAIN last.pre.heap

\* C1: for a service that has a load operation, when the wrapper's load has
\* returned and the wrapper is marked loaded, the service's load has been
\* invoked with the given context and has run to completion (sync or async).
C1_LoadRunsServiceLoad ==
    (OnWrapper("wrapper.load") /\ kind.hasLoad /\ ~kind.loadRaises
        /\ last.outcome = "ok" /\ Now.is_loaded)
    => /\ Now.svc.calls["load"] = Before.svc.calls["load"] + 1
       /\ Now.svc.done["load"] = Before.svc.done["load"] + 1
       /\ Now.svc.args["load"] = last.arg

\* C2: a wrapper process that passes the load guard invokes the service's
\* process exactly once with the given context, runs it to completion and
\* returns the service's result.
C2_ProcessRunsServiceProcess ==
    (OnWrapper("wrapper.process") /\ kind.hasProcess /\ last.outcome # "ValueError")
    => /\ last.outcome = "ok"
       /\ Now.svc.calls["process"] = Before.svc.calls["process"] + 1
       /\ Now.svc.done["process"] = Before.svc.done["process"] + 1
       /\ Now.svc.args["process"] = last.arg
       /\ last.ret = ServiceResult("process")

\* C3: for a service that has a load operation, a wrapper process called when
\* the wrapper's load has not returned yet raises the invalid-state error and
\* leaves the service untouched; called after the wrapper's load has returned
\* it does not raise that error.
C3_ProcessGuardedByLoad ==
    (OnWrapper("wrapper.process") /\ kind.hasLoad)
    => /\ ~Before.loadReturned => (last.outcome = "ValueError" /\ Now.svc = Before.svc)
       /\ Before.loadReturned => last.outcome # "ValueError"

C3_Witness ==
    /\ OnWrapper("wrapper.process") /\ kind.hasLoad
    /\ ~Before.loadReturned
    /\ last.outcome = "ValueError"

\* C4: for a service without a load operation, the wrapper's load returns
\* normally and leaves the service untouched, and the wrapper's process never
\* raises the invalid-state error, whether or not load was called before.
C4_NoLoadServiceNeverBlocked ==
    ~kind.hasLoad
    => /\ OnWrapper("wrapper.load") => (last.outcome = "ok" /\ Now.svc = Before.svc)
       /\ OnWrapper("wrapper.process") => last.outcome # "ValueError"
       /\ last.op = "server.process" /\ last.pre.srv # 0 => last.outcome # "ValueError"

C4_Witness ==
    /\ ~kind.hasLoad /\ kind.hasProcess
    /\ OnWrapper("wrapper.process")
    /\ ~Before.loadReturned
    /\ last.outcome = "ok"

\* C5: when the service has a dispose operation, it has been invoked and has
\* run to completion by the time the wrapper's dispose, or the dispose of an
\* orchestrator that holds a service, returns.
C5_DisposeRunsServiceDispose ==
    (/\ \/ OnWrapper("wrapper.dispose")
        \/ last.op = "server.dispose" /\ last.pre.srv # 0
     /\ kind.hasDispose /\ ~kind.disposeRaises
     /\ last.outcome = "ok")
    => /\ Now.svc.calls["dispose"] = Before.svc.calls["dispose"] + 1
       /\ Now.svc.done["dispose"] = Before.svc.done["dispose"] + 1

\* C6: dispose of the wrapper and of the orchestrator returns normally for
\* every service, also for one whose dispose operation raises.
C6_DisposeNeverRaises ==
    last.op \in {"wrapper.dispose", "server.dispose"} => last.outcome = "ok"

C6_Witness ==
    /\ kind.disposeRaises
    /\ last.op = "server.dispose" /\ last.pre.srv # 0
    /\ last.outcome = "ok"

\* C7: when the service's load raises, the error comes out of the
\* orchestrator's load and the orchestrator does not become loaded.
C7_LoadErrorPropagates ==
    (last.op = "server.load" /\ kind.loadRaises)
    => /\ last.outcome = RaisedError("load")
       /\ srv = last.pre.srv

\* C8: dispose of an orchestrator on which no load has completed does not
\* raise, touches no service and leaves the orchestrator not loaded.
C8_DisposeUnloadedIsNoOp ==
    (last.op = "server.dispose" /\ ~is_loaded(last.pre.srv))
    => /\ last.outcome = "ok"
       /\ heap = last.pre.heap
       /\ ~is_loaded(srv)

C8_Witness ==
    /\ last.op = "server.dispose" /\ ~is_loaded(last.pre.srv)
    /\ Len(heap) > 0

\* The lifecycle state a wrapper is in, read off its only state field.
LifecycleState(w) == IF w.is_loaded THEN "Loaded" ELSE "Unloaded"
Rank(st) == CASE st = "Unloaded" -> 0 [] st = "Loaded" -> 1 [] st = "Disposed" -> 2

C10_ProcessKeepsLoadedFlag ==
    \/ OnWrapper("wrapper.process")
    \/ last.op = "server.process" /\ last.pre.srv # 0
    => Now.is_loaded = Before.is_loaded

C10_Witness ==
    /\ OnWrapper("wrapper.process")
    /\ kind.hasLoad /\ kind.hasProcess
    /\ Before.is_loaded
    /\ last.outcome = "ok"

\* C11: a dispose that directly follows a dispose of the same object (wrapper
\* or orchestrator) does not raise and leaves wrappers and orchestrator as the
\* first call left them.
C11_DisposeIdempotent ==
    (/\ last.op \in {"wrapper.dispose", "server.dispose"}
     /\ last.prev.op = last.op
     /\ last.prev.inst = last.inst)
    => /\ last.outcome = "ok"
       /\ heap = last.pre.heap
       /\ srv = last.pre.srv

C11_Witness ==
    /\ last.op = "server.dispose" /\ last.prev.op = "server.dispose"
    /\ last.prev.inst = last.inst
    /\ is_loaded(last.pre.srv)
    /\ kind.hasDispose

\* C18: a process on an orchestrator on which no load has completed signals
\* an error and touches no service.
C18_ProcessBeforeLoadFails ==
    (last.op = "server.process" /\ ~is_loaded(last.pre.srv))
    => /\ last.outcome # "ok"
       /\ heap = last.pre.heap

C18_Witness ==
    /\ last.op = "server.process" /\ ~is_loaded(last.pre.srv)
    /\ Len(heap) > 0
    /\ last.outcome = "AttributeError"

\* C19: the wrapper the orchestrator holds is loaded or wraps a service
\* without a load operation, so a process on a loaded orchestrator never
\* raises the wrapper's process-before-load error.
C19_HeldWrapperIsReady ==
    /\ is_loaded(srv) => (heap[srv].is_loaded \/ ~has_load(heap[srv], kind))
    /\ (last.op = "server.process" /\ is_loaded(last.pre.srv))
          => last.outcome # "ValueError"

C19_Witness ==
    /\ last.op = "server.process" /\ is_loaded(last.pre.srv)
    /\ kind.hasLoad /\ kind.hasProcess
    /\ last.outcome = "ok"

\* The wrappers the orchestrator has created, oldest first.
ServerWrappers(h) == { i \in DOMAIN h : h[i].owner = "server" }

\* C20: the orchestrator holds at most one instance, the one its most recent
\* load created; each load creates a fresh one that replaces the held one;
\* process and dispose go to the held one and leave every other untouched.
C20_HoldsLatestInstance ==
    /\ IF ServerWrappers(heap) = {} THEN srv = 0
       ELSE srv \in ServerWrappers(heap) /\ \A i \in ServerWrappers(heap) : i <= srv
    /\ last.op = "server.load" =>
          /\ last.outcome = "ok"
          /\ srv \notin DOMAIN last.pre.heap
          /\ srv # last.pre.srv
          /\ \A i \in DOMAIN last.pre.heap : heap[i] = last.pre.heap[i]
    /\ last.op \in {"server.process", "server.dispose"} =>
          /\ last.inst = last.pre.srv
          /\ srv = last.pre.srv
          /\ \A i \in DOMAIN heap : i # srv => heap[i] = last.pre.heap[i]

C20_Witness ==
    /\ last.op = "server.dispose"
    /\ \E i \in ServerWrappers(heap) : i < srv

LookedUp(op) == look.op = op

SourceRank(member) ==
    CASE member.type = "dict" -> 1 [] member.type = "env" -> 2 [] member.type = "config" -> 3

\* C12: the chain built by build_load_context_source holds the override dict
\* source iff an override is given, the SERVICE_ environment source iff
\* environment variables are included, and the configuration source iff the
\* configuration has parameters, in this order; so a value of the override
\* wins over the environment, which wins over the configuration.
C12_ChainOrder ==
    LookedUp("chain.get_parameter_value") =>
        LET ch == look.chain
            ov == look.override.data[look.name]
        IN  /\ (\E i \in DOMAIN ch : ch[i] = DictSource) <=> look.override.given
            /\ (\E i \in DOMAIN ch : ch[i] = EnvSource("SERVICE_")) <=> look.include
            /\ (\E i \in DOMAIN ch : ch[i] = ConfigSource) <=> has_parameters(params)
            /\ \A i, j \in DOMAIN ch : i < j => SourceRank(ch[i]) < SourceRank(ch[j])
            /\ IsValidName(look.name) =>
                  /\ (look.override.given /\ ov # None)
                        => (look.outcome = "ok" /\ look.ret = <<ov>>)
                  /\ (~(look.override.given /\ ov # None)
                         /\ look.include /\ environ[look.name] # None)
                        => (look.outcome = "ok" /\ look.ret = <<environ[look.name]>>)

C12_Witness ==
    /\ LookedUp("chain.get_parameter_value")
    /\ Len(look.chain) = 3
    /\ look.name = "foo"
    /\ look.override.data["foo"] = "baz"
    /\ environ["foo"] = "qux"
    /\ params["foo"] = "bar"
    /\ look.ret = <<"baz">>

\* C13: on the configuration source, a lookup of a valid name the
\* configuration does not hold, without a default, raises
\* MissingParameterError carrying the name when required, and returns null
\* when not required; both for plain values and for real paths.
C13_MissingParameter ==
    (/\ \/ LookedUp("config.get_parameter_value")
        \/ LookedUp("config.get_parameter_real_path_value")
     /\ IsValidName(look.name)
     /\ params[look.name] = None
     /\ look.default = None)
    => /\ look.required => (look.outcome = "MissingParameterError"
                            /\ look.error_name = look.name)
       /\ ~look.required => (look.outcome = "ok" /\ look.ret = <<None>>)

C13_Witness ==
    /\ LookedUp("config.get_parameter_real_path_value")
    /\ look.name = "foo" /\ params["foo"] = None
    /\ look.required
    /\ look.outcome = "MissingParameterError"

\* C14: get_parameter_value of the configuration source returns the value
\* the configuration holds whenever that value is not null (the empty
\* string, zero and false included), and returns the default only when the
\* configuration holds no value.
C14_DefaultOnlyWhenNull ==
    (LookedUp("config.get_parameter_value") /\ IsValidName(look.name))
    => /\ params[look.name] # None
            => (look.outcome = "ok" /\ look.ret = <<params[look.name]>>)
       /\ (params[look.name] = None /\ look.outcome = "ok")
            => look.ret = <<look.default>>

\* C15: a lookup of a malformed name fails with the naming error on every
\* path, before the parameters are read.
C15_NameValidatedFirst ==
    (/\ look.op \in {"config.get_parameter_value",
                     "config.get_parameter_real_path_value",
                     "server.get_parameter_real_path_value"}
     /\ ~IsValidName(look.name))
    => /\ look.outcome = "NameError"
       /\ ~look.read

HasFieldName(type) == type \in {"DatasetFieldError", "MissingDatasetFieldError"}

\* C16: for every error type and every message the caller supplies, the
\* empty string included, the constructed error's message is the supplied
\* message.
C16_MessageVerbatim ==
    (err.type # "none" /\ err.args.message.given)
    => err.error.message = err.args.message.text

\* The default message of each type, as the documentation gives it.
DefaultMessage(type, d, f) ==
    CASE type = "BadRequestError" -> <<"The request was not valid">>
      [] type = "BadParameterError" -> <<"The request parameter ">> \o d \o <<" was not valid">>
      [] type = "BadDatasetError" -> <<"The input dataset ">> \o d \o <<" was not valid">>
      [] type = "DatasetFieldError" ->
            <<"The field ">> \o f \o <<" was not valid for input dataset ">> \o d
      [] type = "MissingDatasetFieldError" ->
            <<"The field ">> \o f \o <<" on input dataset ">> \o d
            \o <<" is required but could not be found!">>

\* C17: without a supplied message every error carries the default message
\* of its own type, its name, and (for the field errors) its field name; no
\* parent constructor overwrites the message.
C17_OwnDefaultMessage ==
    (err.type # "none" /\ ~err.args.message.given)
    => /\ err.error.message = DefaultMessage(err.type, err.args.name, err.args.field_name)
       /\ err.error.name = err.args.name
       /\ HasFieldName(err.type) => err.error.field_name = err.args.field_name

C17_Witness ==
    /\ err.type = "MissingDatasetFieldError"
    /\ ~err.args.message.given
    /\ err.args.name = <<"orders">> /\ err.args.field_name = <<"id">>
    /\ err.error.message = <<"The field ", "id", " on input dataset ", "orders",
                             " is required but could not be found!">>
====
